---- MODULE Spec2Model ----
(***************************************************************************)
(* freertos-gdb (freertos.py): the gdb commands "freertos tasks" and       *)
(* "freertos break", and the task-specific breakpoint's stop() predicate,  *)
(* run against a target whose memory is read through gdb.                  *)
(*                                                                         *)
(* The target (its lists, list items, TCBs, pxCurrentTCB, configuration    *)
(* macros and the places whose read fails) is the variable mem, chosen in  *)
(* Init and never written: the script only reads the target.  A behaviour  *)
(* is one gdb session: one command typed at the prompt and, after a        *)
(* breakpoint was installed, one evaluation of its stop().                 *)
(***************************************************************************)
EXTENDS Integers, Sequences, FiniteSets

\* ------------------------------------------------------------- bounds

\* List items (tasks) of the target.
MaxNodes == 2
\* Length of pxReadyTasksLists (configMAX_PRIORITIES of the target).
NumPrio == 2
\* Length of pxCurrentTCB when the target declares it as an array.
NumCores == 2
\* Longest argv given to "freertos break".
MaxArgs == 3

\* --------------------------------------------------- program constants

NULL == 0

TaskLists ==
  << [symbol |-> "pxReadyTasksLists", state |-> "R"],
     [symbol |-> "xSuspendedTaskList", state |-> "S"],
     [symbol |-> "xDelayedTaskList1", state |-> "B"],
     [symbol |-> "xDelayedTaskList2", state |-> "B"],
     [symbol |-> "xTasksWaitingTermination", state |-> "D"] >>

TaskVariables ==
  << [name |-> "PRIORITY", symbol |-> "uxPriority",
      get_var_fn |-> "get_int_var", config_check |-> ""],
     [name |-> "STACK", symbol |-> "pxStack",
      get_var_fn |-> "get_hex_var", config_check |-> ""],
     [name |-> "NAME", symbol |-> "pcTaskName",
      get_var_fn |-> "get_string_var", config_check |-> ""],
     [name |-> "STACK_END", symbol |-> "pxEndOfStack",
      get_var_fn |-> "get_hex_var",
      config_check |-> "configRECORD_STACK_HIGH_ADDRESS"],
     [name |-> "CRITICAL_NESTING", symbol |-> "uxCriticalNesting",
      get_var_fn |-> "get_int_var",
      config_check |-> "portCRITICAL_NESTING_IN_TCB"],
     [name |-> "TCB_NUM", symbol |-> "uxTCBNumber",
      get_var_fn |-> "get_int_var",
      config_check |-> "configUSE_TRACE_FACILITY"],
     [name |-> "MUTEXES", symbol |-> "uxMutexesHeld",
      get_var_fn |-> "get_int_var", config_check |-> "configUSE_MUTEXES"],
     [name |-> "RUN_TIME", symbol |-> "ulRunTimeCounter",
      get_var_fn |-> "get_int_var",
      config_check |-> "configGENERATE_RUN_TIME_STATS"] >>

ConfigSymbols ==
  {TaskVariables[i].config_check : i \in 1..Len(TaskVariables)} \ {""}

\* ------------------------------------------------- the target's layout

\* Addresses of the list items (the xStateListItem of each task).
Nodes == 1..MaxNodes

\* One List_t per ready priority, then one per remaining TaskLists entry.
NumLists == NumPrio + Len(TaskLists) - 1

Lists == 1..NumLists

\* xListEnd.address of list l.
EndAddr(l) == MaxNodes + l

EndAddrs == {EndAddr(l) : l \in Lists}

\* Address of the TCB that embeds list item n.
TcbOf(n) == MaxNodes + NumLists + n

Tcbs == {TcbOf(n) : n \in Nodes}

\* tasklist_val.type.code == gdb.TYPE_CODE_ARRAY: only pxReadyTasksLists.
IsArraySymbol(sym) == sym = "pxReadyTasksLists"

\* tasklist_val.type.range() of the array symbol.
ArrayRange == <<0, NumPrio - 1>>

\* The List_t that entry e of TaskLists denotes (element i of an array).
ListOf(e, i) ==
  IF IsArraySymbol(TaskLists[e].symbol) THEN i + 1 ELSE NumPrio + e - 1

\* The word the target holds in member `symbol` of the TCB at `tcb`.
VarIndex(symbol) ==
  CHOOSE i \in 1..Len(TaskVariables) : TaskVariables[i].symbol = symbol

MemberValue(tcb, symbol) == tcb * (Len(TaskVariables) + 1) + VarIndex(symbol)

\* The string the target holds in pcTaskName of the TCB at `tcb`.
TaskName(tcb) == IF tcb % 2 = 0 THEN "idle" ELSE "worker"

VARIABLES
  mem,          \* the target as gdb reads it
  pc,           \* prompt | list | walk | print | running | done
  cmd,          \* the handler that ran last: "" | tasks | break | stop
  argv,         \* gdb.string_to_argv(arg) of "freertos break"
  current_tcbs, \* invoke: get_current_tcbs()
  tasklist,     \* invoke: position of `tasklist` in TaskLists
  idx,          \* invoke: i of the loop over an array symbol
  curr_node,    \* FreeRTOSList.__iter__: curr_node
  yielded,      \* the values __iter__ has yielded for the list being walked
  rows,         \* tasklist_to_rows: rows
  table,        \* invoke: table
  reads,        \* <<tcb, member>> read through task_tcb so far
  out,          \* what was printed
  err,          \* the exception that left the handler, "" if none
  breakpoints,  \* the FreeRTOSBreakpoint objects created
  decision      \* what stop() returned: none | stop | continue

vars ==
  << mem, pc, cmd, argv, current_tcbs, tasklist, idx, curr_node, yielded,
     rows, table, reads, out, err, breakpoints, decision >>

\* ------------------------------------------------------ initial targets

RECURSIVE LinkOrder(_, _)
LinkOrder(S, desc) ==
  IF S = {} THEN <<>>
  ELSE LET x == IF desc
                THEN CHOOSE m \in S : \A y \in S : y <= m
                ELSE CHOOSE m \in S : \A y \in S : m <= y
       IN <<x>> \o LinkOrder(S \ {x}, desc)

\* lay[n] is the list that item n is linked into, 0 when in none; the items
\* of a list are linked by ascending or by descending address.
ItemsOf(lay, desc, l) == LinkOrder({n \in Nodes : lay[n] = l}, desc)

Successor(lay, desc, a) ==
  IF a \in EndAddrs
  THEN LET l == a - MaxNodes
           s == ItemsOf(lay, desc, l)
       IN IF s = <<>> THEN a ELSE s[1]
  ELSE IF lay[a] = 0 THEN a
  ELSE LET s == ItemsOf(lay, desc, lay[a])
           i == CHOOSE k \in 1..Len(s) : s[k] = a
       IN IF i = Len(s) THEN EndAddr(lay[a]) ELSE s[i + 1]

\* A consistent target: every list circular through its end marker, its
\* count the number of its items, every item owned by its TCB, one core
\* running the first task, every guarded member compiled out, every symbol
\* and every address but NULL readable.
BaseMem(lay, desc) ==
  [ uxNumberOfItems |->
      [l \in Lists |-> Cardinality({n \in Nodes : lay[n] = l})],
    pxNext |-> [a \in Nodes \cup EndAddrs |-> Successor(lay, desc, a)],
    pvOwner |-> [n \in Nodes |-> TcbOf(n)],
    pxCurrentTCB |-> [array |-> FALSE, val |-> <<TcbOf(1)>>],
    config |-> [s \in ConfigSymbols |-> 0],
    badSyms |-> {},
    badAddrs |-> {NULL} ]

Symbols ==
  {"pxCurrentTCB"} \cup {TaskLists[e].symbol : e \in 1..Len(TaskLists)}
    \cup ConfigSymbols

\* The targets of a session: a consistent target, or one that departs from
\* it in one respect (the running tasks, the build configuration, one
\* corrupted owner, end-marker pointer or count, one failing read).  No
\* task runs on two cores; a core that runs none holds NULL.
InitMem ==
  \E lay \in [Nodes -> 0..NumLists], desc \in BOOLEAN :
    LET base == BaseMem(lay, desc) IN
    \/ mem = base
    \/ \E h \in Tcbs \cup {NULL} :
         mem = [base EXCEPT !.pxCurrentTCB = [array |-> FALSE, val |-> <<h>>]]
    \/ \E hs \in [1..NumCores -> Tcbs \cup {NULL}] :
         /\ \A i, j \in 1..NumCores :
              (i # j /\ hs[i] = hs[j]) => hs[i] = NULL
         /\ mem = [base EXCEPT !.pxCurrentTCB = [array |-> TRUE, val |-> hs]]
    \/ \E c \in [ConfigSymbols -> 0..1] : mem = [base EXCEPT !.config = c]
    \/ \E n \in Nodes, zero \in SUBSET {NULL} :
         mem = [base EXCEPT !.pvOwner[n] = NULL, !.badAddrs = zero]
    \/ \E l \in Lists, a \in Nodes :
         LET s == ItemsOf(lay, desc, l) IN
         /\ lay[a] = l
         /\ mem = [base EXCEPT !.pxNext[s[Len(s)]] = a]
    \/ \E l \in Lists, c \in 0..MaxNodes :
         mem = [base EXCEPT !.uxNumberOfItems[l] = c]
    \/ \E s \in Symbols : mem = [base EXCEPT !.badSyms = {s}]
    \/ \E a \in Nodes \cup Tcbs :
         mem = [base EXCEPT !.badAddrs = {NULL, a}]

Init ==
  /\ InitMem
  /\ pc = "prompt"
  /\ cmd = ""
  /\ argv = <<>>
  /\ current_tcbs = <<>>
  /\ tasklist = 1
  /\ idx = 0
  /\ curr_node = NULL
  /\ yielded = <<>>
  /\ rows = <<>>
  /\ table = <<>>
  /\ reads = {}
  /\ out = <<>>
  /\ err = ""
  /\ breakpoints = {}
  /\ decision = "none"

\* ------------------------------------------------------ values printed

\* A cell of the table or of its header: a Python str, an int, the hex()
\* of an int or the str() of a pointer.
Cell(k, s, n) == [k |-> k, s |-> s, n |-> n]

PyStr(s) == Cell("str", s, 0)

PyInt(n) == Cell("int", "", n)

PyHex(n) == Cell("hex", "", n)

PtrStr(p) == Cell("ptr", "", p)

Event(kind, header, body) == [kind |-> kind, header |-> header, rows |-> body]

DiagEvent == Event("Task pointer is NULL. Stack corruption?", <<>>, <<>>)

NoTasksEvent == Event("There are currently no tasks.", <<>>, <<>>)

UsageEvent == Event("No arguments given.", <<>>, <<>>)

TableEvent(header, body) == Event("table", header, body)

\* ------------------------------------------------------- reading gdb

\* gdb.parse_and_eval(sym) raises gdb.error.
EvalFails(sym) == sym \in mem.badSyms

\* Reading target memory at addr raises gdb.MemoryError.
ReadFails(addr) == addr \in mem.badAddrs

\* A handler that swallows the exception and goes on to its printing.
AfterRaise_Continue == "print"

\* Where an exception that leaves a handler takes the session: back to
\* gdb, the rest of the handler skipped.
AfterRaise == "done"

\* ---------------------------------------------------- FreeRTOSList

\* self.head = self.xListEnd['pxNext']
ListHead(l) == mem.pxNext[EndAddr(l)]

\* The loop condition of __iter__.
LoopCond(l, node) == mem.uxNumberOfItems[l] > 0 /\ node # EndAddr(l)

\* An iterator that yields the list item itself, not its owner.
Data_YieldsNode(node) == node

\* tmp_node['pvOwner'].cast(self.cast_type)
Data(node) == mem.pvOwner[node]

\* tmp_node['pxNext']
NextNode(node) == mem.pxNext[node]

\* ---------------------------------------------------- TaskVariables

\* is_valid() raises: its guard cannot be evaluated.
IsValidFails(v) == v.config_check # "" /\ EvalFails(v.config_check)

\* A schema that takes every guard to hold.
IsValid_Always(v) == TRUE

IsValid(v) == v.config_check = "" \/ mem.config[v.config_check] # 0

GetVar(v, tcb) ==
  CASE v.get_var_fn = "get_int_var" -> PyInt(MemberValue(tcb, v.symbol))
    [] v.get_var_fn = "get_hex_var" -> PyHex(MemberValue(tcb, v.symbol))
    [] v.get_var_fn = "get_string_var" -> PyStr(TaskName(tcb))

\* ------------------------------------------------- get_current_tcbs

GetCurrentTcbs ==
  IF mem.pxCurrentTCB.array
  THEN [i \in 1..Len(mem.pxCurrentTCB.val) |-> mem.pxCurrentTCB.val[i]]
  ELSE <<mem.pxCurrentTCB.val[1]>>

\* ------------------------------------------------- tasklist_to_rows

\* A position counted from 1.
IndexOf_OneBased(tcbs, task_ptr) ==
  CHOOSE i \in 1..Len(tcbs) :
    tcbs[i] = task_ptr /\ \A j \in 1..(i - 1) : tcbs[j] # task_ptr

\* current_tcbs.index(task_ptr), for task_ptr in current_tcbs.
IndexOf(tcbs, task_ptr) ==
  (CHOOSE i \in 1..Len(tcbs) :
     tcbs[i] = task_ptr /\ \A j \in 1..(i - 1) : tcbs[j] # task_ptr) - 1

CoreCell(tcbs, task_ptr) ==
  IF \E i \in 1..Len(tcbs) : tcbs[i] = task_ptr
  THEN PyInt(IndexOf(tcbs, task_ptr))
  ELSE PyStr("")

\* The loop over TaskVariables from the k-th on: the cells appended, the
\* members read through task_tcb, and the exception that ended it, if any.
RECURSIVE VarCells(_, _)
VarCells(k, tcb) ==
  IF k > Len(TaskVariables) THEN [err |-> "", cells |-> <<>>, reads |-> {}]
  ELSE LET v == TaskVariables[k] IN
       IF IsValidFails(v)
       THEN [err |-> "gdb.error", cells |-> <<>>, reads |-> {}]
       ELSE IF ~IsValid(v) THEN VarCells(k + 1, tcb)
       ELSE IF ReadFails(tcb)
       THEN [err |-> "gdb.MemoryError", cells |-> <<>>,
             reads |-> {<<tcb, v.symbol>>}]
       ELSE LET rest == VarCells(k + 1, tcb) IN
            [err |-> rest.err,
             cells |-> <<GetVar(v, tcb)>> \o rest.cells,
             reads |-> {<<tcb, v.symbol>>} \cup rest.reads]

\* The body of the loop over pythonic_list for one task_ptr.
BuildRow(task_ptr, state, tcbs) ==
  LET vs == VarCells(1, task_ptr) IN
  [err |-> vs.err,
   row |-> <<PtrStr(task_ptr), PyStr(state), CoreCell(tcbs, task_ptr)>>
             \o vs.cells,
   reads |-> vs.reads]

\* ------------------------------------------------------- get_header

RECURSIVE HeaderCells(_)
HeaderCells(k) ==
  IF k > Len(TaskVariables) THEN [err |-> "", cells |-> <<>>]
  ELSE LET v == TaskVariables[k] IN
       IF IsValidFails(v) THEN [err |-> "gdb.error", cells |-> <<>>]
       ELSE LET rest == HeaderCells(k + 1) IN
            [err |-> rest.err,
             cells |-> IF IsValid(v) THEN <<PyStr(v.name)>> \o rest.cells
                       ELSE rest.cells]

GetHeader ==
  LET hs == HeaderCells(1) IN
  [err |-> hs.err,
   cells |-> <<PyStr("ID"), PyStr("STATE"), PyStr("CPU")>> \o hs.cells]

\* ------------------------------------------------------------ actions

\* The list being walked.
CurList == ListOf(tasklist, idx)

\* The walk of one list is followed for at most this many yields.
MaxYield == MaxNodes + 1

\* The rows of a list put before those of the lists walked earlier.
Extend_Prepend(t, rs) == rs \o t

\* table.extend(rows)
Extend(t, rs) == t \o rs

\* An emptiness test that never finds the table empty.
NoTasks_Never(t) == FALSE

\* len(table) == 0
NoTasks(t) == Len(t) = 0

\* An exception leaves the handler.
Raise(e) == pc' = AfterRaise /\ err' = e

\* FreeRTOSTaskInfo.invoke, up to the loop over TaskLists.
TasksInvoke ==
  /\ pc = "prompt"
  /\ cmd' = "tasks"
  /\ IF EvalFails("pxCurrentTCB")
     THEN /\ Raise("gdb.error")
          /\ UNCHANGED current_tcbs
     ELSE /\ current_tcbs' = GetCurrentTcbs
          /\ pc' = "list"
          /\ err' = err
  /\ table' = <<>>
  /\ tasklist' = 1
  /\ idx' = 0
  /\ UNCHANGED << mem, argv, curr_node, yielded, rows, reads, out,
                  breakpoints, decision >>

\* invoke evaluates the list symbol and tasklist_to_rows constructs the
\* FreeRTOSList; __iter__ starts at its head.
ListOpen ==
  /\ pc = "list"
  /\ IF EvalFails(TaskLists[tasklist].symbol)
     THEN /\ Raise("gdb.error")
          /\ UNCHANGED << curr_node, yielded, rows >>
     ELSE /\ rows' = <<>>
          /\ yielded' = <<>>
          /\ curr_node' = ListHead(CurList)
          /\ pc' = "walk"
          /\ err' = err
  /\ UNCHANGED << mem, cmd, argv, current_tcbs, tasklist, idx, table, reads,
                  out, breakpoints, decision >>

\* One turn of the loop of tasklist_to_rows: __iter__ yields the owner of
\* curr_node, the row is built and appended, __iter__ moves on.
WalkStep ==
  /\ pc = "walk"
  /\ LoopCond(CurList, curr_node)
  /\ Len(yielded) < MaxYield
  /\ IF ReadFails(curr_node)
     THEN /\ Raise("gdb.MemoryError")
          /\ UNCHANGED << curr_node, yielded, rows, reads, out >>
     ELSE LET task_ptr == Data(curr_node)
              r == BuildRow(task_ptr, TaskLists[tasklist].state, current_tcbs)
          IN /\ yielded' = Append(yielded, task_ptr)
             /\ out' = IF task_ptr = NULL THEN Append(out, DiagEvent) ELSE out
             /\ reads' = reads \cup r.reads
             /\ IF r.err # ""
                THEN /\ Raise(r.err)
                     /\ UNCHANGED << curr_node, rows >>
                ELSE /\ rows' = Append(rows, r.row)
                     /\ curr_node' = NextNode(curr_node)
                     /\ UNCHANGED << pc, err >>
  /\ UNCHANGED << mem, cmd, argv, current_tcbs, tasklist, idx, table,
                  breakpoints, decision >>

\* The loop of __iter__ ends; invoke extends the table and moves to the
\* next list of the array, the next entry of TaskLists, or the printing.
WalkEnd ==
  /\ pc = "walk"
  /\ ~LoopCond(CurList, curr_node)
  /\ table' = Extend(table, rows)
  /\ IF IsArraySymbol(TaskLists[tasklist].symbol) /\ idx < ArrayRange[2]
     THEN /\ idx' = idx + 1
          /\ UNCHANGED tasklist
          /\ pc' = "list"
     ELSE IF tasklist < Len(TaskLists)
     THEN /\ tasklist' = tasklist + 1
          /\ idx' = 0
          /\ pc' = "list"
     ELSE /\ pc' = "print"
          /\ UNCHANGED << tasklist, idx >>
  /\ UNCHANGED << mem, cmd, argv, current_tcbs, curr_node, yielded, rows,
                  reads, out, err, breakpoints, decision >>

\* The end of invoke: the "no tasks" message, or print_table.
PrintTable ==
  /\ pc = "print"
  /\ IF NoTasks(table)
     THEN /\ out' = Append(out, NoTasksEvent)
          /\ pc' = "done"
          /\ err' = err
     ELSE IF GetHeader.err # ""
     THEN /\ Raise(GetHeader.err)
          /\ out' = out
     ELSE /\ out' = Append(out, TableEvent(GetHeader.cells, table))
          /\ pc' = "done"
          /\ err' = err
  /\ UNCHANGED << mem, cmd, argv, current_tcbs, tasklist, idx, curr_node,
                  yielded, rows, table, reads, breakpoints, decision >>

\* The argument vectors typed after "freertos break".
Argvs ==
  {SubSeq([i \in 1..MaxArgs |->
             IF i = 1 THEN n ELSE IF i = 2 THEN "main.c:10" ELSE "extra"],
          1, k) : n \in {"worker"}, k \in 0..MaxArgs}

\* FreeRTOSCreateBreakpoint.invoke
CreateBreakpointInvoke(args) ==
  /\ pc = "prompt"
  /\ cmd' = "break"
  /\ argv' = args
  /\ IF Len(args) = 0
     THEN /\ out' = Append(out, UsageEvent)
          /\ pc' = "done"
          /\ UNCHANGED << err, breakpoints >>
     ELSE IF Len(args) < 2
     THEN /\ Raise("IndexError")
          /\ UNCHANGED << out, breakpoints >>
     ELSE /\ breakpoints' =
               breakpoints \cup {[task_name |-> args[1], spec |-> args[2]]}
          /\ pc' = "running"
          /\ UNCHANGED << out, err >>
  /\ UNCHANGED << mem, current_tcbs, tasklist, idx, curr_node, yielded, rows,
                  table, reads, decision >>

\* A stop() that catches the failure of the lookup and returns False.
StopResult_Swallow(task_name) ==
  IF EvalFails("pxCurrentTCB")
       \/ \E i \in 1..Len(GetCurrentTcbs) : ReadFails(GetCurrentTcbs[i])
  THEN [err |-> "", ret |-> "continue"]
  ELSE [err |-> "",
        ret |-> IF \E i \in 1..Len(GetCurrentTcbs) :
                     TaskName(GetCurrentTcbs[i]) = task_name
                THEN "stop" ELSE "continue"]

\* What FreeRTOSBreakpoint.stop does for task_name: the exception it
\* raises, or the value it returns.
StopResult(task_name) ==
  IF EvalFails("pxCurrentTCB") THEN [err |-> "gdb.error", ret |-> "none"]
  ELSE LET tcbs == GetCurrentTcbs IN
       IF \E i \in 1..Len(tcbs) : ReadFails(tcbs[i])
       THEN [err |-> "gdb.MemoryError", ret |-> "none"]
       ELSE [err |-> "",
             ret |-> IF \E i \in 1..Len(tcbs) : TaskName(tcbs[i]) = task_name
                     THEN "stop" ELSE "continue"]

\* The target reaches the location of breakpoint bp: gdb calls bp.stop().
BreakpointStop(bp) ==
  /\ pc = "running"
  /\ bp \in breakpoints
  /\ cmd' = "stop"
  /\ LET r == StopResult(bp.task_name) IN
     /\ decision' = r.ret
     /\ err' = r.err
  /\ pc' = "done"
  /\ UNCHANGED << mem, argv, current_tcbs, tasklist, idx, curr_node, yielded,
                  rows, table, reads, out, breakpoints >>

Next ==
  \/ TasksInvoke
  \/ ListOpen
  \/ WalkStep
  \/ WalkEnd
  \/ PrintTable
  \/ \E args \in Argvs : CreateBreakpointInvoke(args)
  \/ \E bp \in breakpoints : BreakpointStop(bp)

Spec == Init /\ [][Next]_vars

\* ------------------------------------------------- what the claims use

Count(l) == mem.uxNumberOfItems[l]

\* The k addresses met from a by following pxNext.
RECURSIVE Chain(_, _)
Chain(a, k) == IF k = 0 THEN <<>> ELSE <<a>> \o Chain(mem.pxNext[a], k - 1)

\* List l is a well-formed circular list of Count(l) items: its end
\* marker's pxNext leads through exactly that many distinct items and the
\* last one's pxNext is the end marker's own address.
WellFormed(l) ==
  LET c == Chain(ListHead(l), Count(l)) IN
  /\ \A i \in 1..Len(c) : c[i] \in Nodes
  /\ \A i, j \in 1..Len(c) : i # j => c[i] # c[j]
  /\ IF Count(l) = 0 THEN ListHead(l) = EndAddr(l)
     ELSE mem.pxNext[c[Count(l)]] = EndAddr(l)

\* The items met from a before the end marker of l, in at most k steps.
RECURSIVE Visited(_, _, _)
Visited(a, k, l) ==
  IF k = 0 \/ a = EndAddr(l) THEN {}
  ELSE {a} \cup Visited(mem.pxNext[a], k - 1, l)

\* The declared count of l is the number of items linked behind its head.
CountTrustworthy(l) ==
  Count(l) = Cardinality(Visited(ListHead(l), MaxNodes, l))

\* The owners of the items of l from a to the end marker.
RECURSIVE Owners(_, _, _)
Owners(a, l, k) ==
  IF k = 0 \/ a = EndAddr(l) THEN <<>>
  ELSE <<mem.pvOwner[a]>> \o Owners(mem.pxNext[a], l, k - 1)

\* The state code of list l: the ready lists first, by ascending priority
\* index, then the suspended list, the two delayed lists and the list of
\* the tasks waiting termination.
StateCode(l) ==
  IF l <= NumPrio THEN "R" ELSE <<"S", "B", "B", "D">>[l - NumPrio]

\* The handle and state of every entry of the lists from l on.
RECURSIVE Snapshot(_)
Snapshot(l) ==
  IF l > NumLists THEN <<>>
  ELSE LET w == IF Count(l) = 0 THEN <<>>
                ELSE Owners(ListHead(l), l, MaxYield)
       IN [i \in 1..Len(w) |-> [h |-> w[i], state |-> StateCode(l)]]
            \o Snapshot(l + 1)

\* The guard of a TaskVariables entry holds in the target's build.
GuardHolds(v) == v.config_check = "" \/ mem.config[v.config_check] = 1

\* The TaskVariables whose guard holds, from the k-th on, in declared order.
RECURSIVE Included(_)
Included(k) ==
  IF k > Len(TaskVariables) THEN <<>>
  ELSE (IF GuardHolds(TaskVariables[k]) THEN <<TaskVariables[k]>> ELSE <<>>)
         \o Included(k + 1)

Printed(kind) == \E i \in 1..Len(out) : out[i].kind = kind

\* The rows built so far, printed or not.
BuiltRows ==
  {rows[i] : i \in 1..Len(rows)} \cup {table[i] : i \in 1..Len(table)}

\* The lookup of the running tasks' names fails in the target.
NameLookupFails ==
  \/ "pxCurrentTCB" \in mem.badSyms
  \/ \E i \in 1..Len(mem.pxCurrentTCB.val) :
       mem.pxCurrentTCB.val[i] \in mem.badAddrs

\* ------------------------------------------------------------- claims

\* C1: over a well-formed circular list of declared count N >= 1 the
\* iteration yields the owners of the N items in link order, one per item,
\* and ends exactly when N owners were yielded.
C1_WellFormedWalk ==
  (pc = "walk" /\ WellFormed(CurList) /\ Count(CurList) >= 1) =>
    LET c == Chain(ListHead(CurList), Count(CurList)) IN
    /\ Len(yielded) <= Count(CurList)
    /\ \A i \in 1..Len(yielded) : yielded[i] = mem.pvOwner[c[i]]
    /\ (Len(yielded) = Count(CurList)) <=> ~LoopCond(CurList, curr_node)

\* C1 witness: a walk of a well-formed list of at least two items, linked
\* against address order, has yielded all its owners and ended.
C1_Witness ==
  /\ pc = "walk"
  /\ WellFormed(CurList)
  /\ Count(CurList) >= 2
  /\ Len(yielded) = Count(CurList)
  /\ ListHead(CurList) > mem.pxNext[ListHead(CurList)]
  /\ curr_node = EndAddr(CurList)

\* C2: the walk of a list whose declared count N is trustworthy stops when
\* the count is used up, whatever its links: it never yields more than N
\* times.
C2_WalkEndsWithinCount ==
  (pc = "walk" /\ CountTrustworthy(CurList)) =>
    Len(yielded) <= Count(CurList)

\* C3: a list entry whose owner is NULL is reported, gets no row, has no
\* member read through the NULL pointer, and does not stop the command: on
\* a target with no other defect the command ends without an error.
C3_NullOwnerSkipped ==
  /\ (\E i \in 1..Len(yielded) : yielded[i] = NULL) =>
       Printed(DiagEvent.kind)
  /\ \A r \in BuiltRows : r[1] # PtrStr(NULL)
  /\ \A rd \in reads : rd[1] # NULL
  /\ (cmd = "tasks" /\ mem.badSyms = {} /\ mem.badAddrs \subseteq {NULL}) =>
       err = ""

\* C4: in the printed table, with a scalar pxCurrentTCB whose handle has a
\* row, exactly one row has core 0 and every other row an empty core; with
\* an array of k handles at most k rows are marked, no two with the same
\* core, each with the position of its handle in the array.
C4_CurrentTaskMarking ==
  \A e \in 1..Len(out) :
    out[e].kind = "table" =>
      LET t == out[e].rows
          cur == mem.pxCurrentTCB.val
          marked == {r \in 1..Len(t) : t[r][3] # PyStr("")}
      IN IF ~mem.pxCurrentTCB.array
         THEN (\E r \in 1..Len(t) : t[r][1] = PtrStr(cur[1])) =>
                /\ Cardinality({r \in 1..Len(t) : t[r][3] = PyInt(0)}) = 1
                /\ \A r \in marked : t[r][3] = PyInt(0)
         ELSE /\ Cardinality(marked) <= Len(cur)
              /\ \A r1, r2 \in marked : r1 # r2 => t[r1][3] # t[r2][3]
              /\ \A r \in marked :
                   /\ t[r][3].k = "int"
                   /\ t[r][3].n \in 0..(Len(cur) - 1)
                   /\ cur[t[r][3].n + 1] = t[r][1].n
                   /\ \A j \in 1..t[r][3].n : cur[j] # t[r][1].n

\* C4 witness: a printed table of a target with an array of running tasks
\* in which two rows are marked.
C4_Witness ==
  \E e \in 1..Len(out) :
    /\ out[e].kind = "table"
    /\ mem.pxCurrentTCB.array
    /\ Cardinality({r \in 1..Len(out[e].rows) :
                      out[e].rows[r][3] # PyStr("")}) >= 2

\* C5: the printed rows are, list by list in registry order and within a
\* list from head to tail, the entries of the lists, each with the state
\* code of its list; no list has entries exactly when "no tasks" is said.
C5_RegistryOrder ==
  /\ \A e \in 1..Len(out) :
       out[e].kind = "table" =>
         LET t == out[e].rows
             s == Snapshot(1)
         IN /\ Len(t) = Len(s)
            /\ \A r \in 1..Len(t) :
                 t[r][1] = PtrStr(s[r].h) /\ t[r][2] = PyStr(s[r].state)
  /\ Printed(NoTasksEvent.kind) => Snapshot(1) = <<>>

\* C5 witness: a printed table with rows of a ready list of priority
\* index above 0, the lowest ready list being empty, and of a later list.
C5_Witness ==
  /\ Printed("table")
  /\ Count(1) = 0
  /\ \E l \in 2..NumPrio : Count(l) >= 1
  /\ \E l \in (NumPrio + 1)..NumLists : Count(l) >= 1
  /\ \A l \in Lists : WellFormed(l)

\* C6: the header is ID, STATE, CPU and the names of the TaskVariables
\* whose guard holds, in declared order; every row is as long as that
\* header and holds in each column the value of the column's attribute;
\* no member whose guard fails is read.
C6_AttributeGating ==
  LET inc == Included(1) IN
  /\ \A e \in 1..Len(out) :
       out[e].kind = "table" =>
         out[e].header =
           <<PyStr("ID"), PyStr("STATE"), PyStr("CPU")>>
             \o [j \in 1..Len(inc) |-> PyStr(inc[j].name)]
  /\ \A r \in BuiltRows :
       /\ Len(r) = 3 + Len(inc)
       /\ \A j \in 1..Len(inc) : r[3 + j] = GetVar(inc[j], r[1].n)
  /\ \A rd \in reads :
       \E j \in 1..Len(inc) : inc[j].symbol = rd[2]

\* C6 witness: a printed table with a row, of a build in which one guard
\* holds and another fails.
C6_Witness ==
  /\ \E e \in 1..Len(out) : out[e].kind = "table" /\ Len(out[e].rows) >= 1
  /\ mem.config["configUSE_MUTEXES"] = 1
  /\ mem.config["configUSE_TRACE_FACILITY"] = 0

\* C7: a command that ends without an error has said "no tasks" and
\* printed no table when no row was built, and has printed the table of
\* the rows and not said "no tasks" when one was; with a row built, the
\* printing does not fail.
C7_NoTasksOutcome ==
  /\ (cmd = "tasks" /\ pc = "done" /\ err = "") =>
       IF table = <<>>
       THEN Printed(NoTasksEvent.kind) /\ ~Printed("table")
       ELSE /\ ~Printed(NoTasksEvent.kind)
            /\ \E e \in 1..Len(out) :
                 out[e].kind = "table" /\ out[e].rows = table
  /\ (pc = "print" /\ table # <<>>) => GetHeader.err = ""

\* C7 witness: the command has ended saying "no tasks".
C7_Witness == cmd = "tasks" /\ pc = "done" /\ Printed(NoTasksEvent.kind)

\* C8: a command left by a read error has printed neither a table nor
\* "no tasks", and is over.
C8_ReadErrorAborts ==
  (cmd = "tasks" /\ err # "") =>
    /\ pc = "done"
    /\ ~Printed("table")
    /\ ~Printed(NoTasksEvent.kind)

\* C8 witness: a read error left the command after rows were built.
C8_Witness == cmd = "tasks" /\ err # "" /\ table # <<>>

\* C9 as stated: when the lookup of the names fails, stop() does not
\* raise and returns "do not stop".
C9_StopDoesNotRaise ==
  (cmd = "stop" /\ NameLookupFails) => (err = "" /\ decision = "continue")

\* C9 as amended: when the lookup of the names fails, stop() raises the
\* error of the lookup and returns no decision; otherwise it raises
\* nothing and returns a decision.
C9_StopRaises ==
  cmd = "stop" =>
    IF NameLookupFails
    THEN err # "" /\ decision = "none"
    ELSE err = "" /\ decision \in {"stop", "continue"}

\* C9 witness: stop() was evaluated on a target whose lookup fails.
C9_Witness == cmd = "stop" /\ NameLookupFails /\ err # ""

\* C10: "freertos break" with an argument count other than 2 prints the
\* usage, creates no breakpoint and raises nothing; with 2 arguments it
\* creates the breakpoint.
C10_UsageOnWrongCount ==
  cmd = "break" =>
    IF Len(argv) # 2
    THEN Printed(UsageEvent.kind) /\ breakpoints = {} /\ err = ""
    ELSE breakpoints = {[task_name |-> argv[1], spec |-> argv[2]]}

====
